---- MODULE Spec2Model ----
(***************************************************************************)
(* Model of the dec-sixbit crate: the DEC SIXBIT codec (encode.rs,         *)
(* decode.rs) and the DecSixbit envelope (struct_api.rs).                  *)
(*                                                                         *)
(* Strings and byte buffers are sequences of byte values 0..255.  Rust     *)
(* indices are 0-based; At(s, i) reads element i of a 0-based slice.       *)
(* usize is modelled with UsizeBits bits; overflowing usize arithmetic     *)
(* panics in a debug build and wraps in a release build.                   *)
(***************************************************************************)
EXTENDS Integers, Sequences, FiniteSets, TLC

VARIABLES str, bytes, len, sixbit, rebuilt, text, reads, err, pc, hist, arg, res, wire

vars == <<str, bytes, len, sixbit, rebuilt, text, reads, err, pc, hist, arg, res, wire>>

(***************************************************************************)
(* Bounds of the model.                                                    *)
(***************************************************************************)
\* longest caller text, in bytes
MaxLen == 5
\* longest caller-supplied byte buffer
MaxBytes == 4
\* width of usize in bits
UsizeBits == 6

(***************************************************************************)
(* Program constants (lib.rs, struct_api.rs).                              *)
(***************************************************************************)
MASK_TWO_BITS == 3
MASK_FOUR_BITS == 15
MASK_SIX_BITS == 63
SHIFT_TWO_BITS == 2
SHIFT_FOUR_BITS == 4
SHIFT_SIX_BITS == 6
ASCII_OFFSET == 32
TRAILING_SPACE_MARKER == 3

NoValue == [kind |-> "None"]

Builds == {"debug", "release"}

(***************************************************************************)
(* Machine arithmetic.                                                     *)
(***************************************************************************)
RECURSIVE Pow2(_)
Pow2(n) == IF n = 0 THEN 1 ELSE 2 * Pow2(n - 1)

UsizeMod == Pow2(UsizeBits)

UsizeMax == UsizeMod - 1

IsizeMax == Pow2(UsizeBits - 1) - 1

\* x << k on a u8: bits shifted past bit 7 are lost
Shl8(x, k) == (x * Pow2(k)) % 256

\* a widening shift done on the u8 before it is widened
ShlWide_narrow(x, k) == Shl8(x, k)

\* x << k on a u16 or u32 that holds a byte value: no bit is lost
ShlWide(x, k) == x * Pow2(k)

\* x >> k
Shr(x, k) == x \div Pow2(k)

\* x as u8
AsU8(x) == x % 256

RECURSIVE BitAnd(_, _)
BitAnd(a, b) ==
    IF a = 0 \/ b = 0 THEN 0
    ELSE (a % 2) * (b % 2) + 2 * BitAnd(a \div 2, b \div 2)

RECURSIVE BitOr(_, _)
BitOr(a, b) ==
    IF a = 0 THEN b
    ELSE IF b = 0 THEN a
    ELSE (IF a % 2 = 1 \/ b % 2 = 1 THEN 1 ELSE 0) + 2 * BitOr(a \div 2, b \div 2)

\* element i of a 0-based slice
At(s, i) == s[i + 1]

\* s with element i (0-based) set to v
Put(s, i, v) == [s EXCEPT ![i + 1] = v]

\* vec![0u8; n]
Zeros(n) == [i \in 1..n |-> 0]

\* &s[from..]
SliceFrom(s, from) == SubSeq(s, from + 1, Len(s))

(***************************************************************************)
(* encode.rs                                                               *)
(***************************************************************************)
\* str.is_ascii()
is_ascii(s) == \A i \in 1..Len(s) : s[i] < 128

\* a range check that lets code 96 through
in_sixbit_range_upto96(code) == code >= ASCII_OFFSET /\ code <= 96

\* (ASCII_OFFSET..=95).contains(&code)
in_sixbit_range(code) == code >= ASCII_OFFSET /\ code <= 95

\* a buffer size that rounds down instead of up
bytes_needed_floor(n) ==
    [ovf |-> n * 3 > UsizeMax,
     val |-> ((n * 3) % UsizeMod) \div 4]

\* (len * 3 + 3) / 4 in usize arithmetic: ovf tells that a step overflowed,
\* val is the wrapped result
bytes_needed(n) ==
    [ovf |-> n * 3 + 3 > UsizeMax,
     val |-> ((((n * 3) % UsizeMod) + 3) % UsizeMod) \div 4]

\* the loop over the full chunks of encode, from chunk_idx on
RECURSIVE encode_full_chunks(_, _, _, _)
encode_full_chunks(s, out, chunk_idx, full_chunks) ==
    IF chunk_idx >= full_chunks
    THEN [kind |-> "Ok", bytes |-> out, iters |-> chunk_idx]
    ELSE LET start == chunk_idx * 4
             chunk == SubSeq(s, start + 1, start + 4)
         IN  IF \E i \in 0..3 : ~in_sixbit_range(At(chunk, i))
             THEN [kind |-> "Err", err |-> "InvalidCharacter", iters |-> chunk_idx]
             ELSE LET a == At(chunk, 0) - ASCII_OFFSET
                      b == At(chunk, 1) - ASCII_OFFSET
                      c == At(chunk, 2) - ASCII_OFFSET
                      d == At(chunk, 3) - ASCII_OFFSET
                      byte_idx == chunk_idx * 3
                      b0 == BitOr(Shl8(a, SHIFT_TWO_BITS), Shr(b, SHIFT_FOUR_BITS))
                      b1 == BitOr(Shl8(BitAnd(b, MASK_FOUR_BITS), SHIFT_FOUR_BITS),
                                  Shr(c, SHIFT_TWO_BITS))
                      b2 == BitOr(Shl8(BitAnd(c, MASK_TWO_BITS), SHIFT_SIX_BITS), d)
                  IN  IF byte_idx + 2 >= Len(out)
                      THEN [kind |-> "Panic", iters |-> chunk_idx]
                      ELSE encode_full_chunks(s,
                               Put(Put(Put(out, byte_idx, b0), byte_idx + 1, b1),
                                   byte_idx + 2, b2),
                               chunk_idx + 1, full_chunks)

\* a partial chunk whose last byte keeps the low bits of the last value in
\* the low end of the byte instead of shifting them to the top
encode_remaining_unshifted(s, out, full_chunks) ==
    LET start == full_chunks * 4
        chunk == SliceFrom(s, start)
        byte_idx == full_chunks * 3
    IN  IF \E i \in 0..(Len(chunk) - 1) : ~in_sixbit_range(At(chunk, i))
        THEN [kind |-> "Err", err |-> "InvalidCharacter"]
        ELSE IF byte_idx + Len(chunk) > Len(out)
        THEN [kind |-> "Panic"]
        ELSE CASE Len(chunk) = 3 ->
                 LET a == At(chunk, 0) - ASCII_OFFSET
                     b == At(chunk, 1) - ASCII_OFFSET
                     c == At(chunk, 2) - ASCII_OFFSET
                     b0 == BitOr(Shl8(a, SHIFT_TWO_BITS), Shr(b, SHIFT_FOUR_BITS))
                     b1 == BitOr(Shl8(BitAnd(b, MASK_FOUR_BITS), SHIFT_FOUR_BITS),
                                 Shr(c, SHIFT_TWO_BITS))
                     b2 == BitAnd(c, MASK_TWO_BITS)
                 IN  [kind |-> "Ok",
                      bytes |-> Put(Put(Put(out, byte_idx, b0), byte_idx + 1, b1),
                                    byte_idx + 2, b2)]
               [] Len(chunk) = 2 ->
                 LET a == At(chunk, 0) - ASCII_OFFSET
                     b == At(chunk, 1) - ASCII_OFFSET
                     b0 == BitOr(Shl8(a, SHIFT_TWO_BITS), Shr(b, SHIFT_FOUR_BITS))
                     b1 == BitAnd(b, MASK_FOUR_BITS)
                 IN  [kind |-> "Ok",
                      bytes |-> Put(Put(out, byte_idx, b0), byte_idx + 1, b1)]
               [] Len(chunk) = 1 ->
                 LET a == At(chunk, 0) - ASCII_OFFSET
                 IN  [kind |-> "Ok",
                      bytes |-> Put(out, byte_idx, a)]
               [] OTHER -> [kind |-> "Unreachable"]

\* the match on the trailing 1..3 characters of encode
encode_remaining(s, out, full_chunks) ==
    LET start == full_chunks * 4
        chunk == SliceFrom(s, start)
        byte_idx == full_chunks * 3
    IN  IF \E i \in 0..(Len(chunk) - 1) : ~in_sixbit_range(At(chunk, i))
        THEN [kind |-> "Err", err |-> "InvalidCharacter"]
        ELSE IF byte_idx + Len(chunk) > Len(out)
        THEN [kind |-> "Panic"]
        ELSE CASE Len(chunk) = 3 ->
                 LET a == At(chunk, 0) - ASCII_OFFSET
                     b == At(chunk, 1) - ASCII_OFFSET
                     c == At(chunk, 2) - ASCII_OFFSET
                     b0 == BitOr(Shl8(a, SHIFT_TWO_BITS), Shr(b, SHIFT_FOUR_BITS))
                     b1 == BitOr(Shl8(BitAnd(b, MASK_FOUR_BITS), SHIFT_FOUR_BITS),
                                 Shr(c, SHIFT_TWO_BITS))
                     b2 == Shl8(BitAnd(c, MASK_TWO_BITS), SHIFT_SIX_BITS)
                 IN  [kind |-> "Ok",
                      bytes |-> Put(Put(Put(out, byte_idx, b0), byte_idx + 1, b1),
                                    byte_idx + 2, b2)]
               [] Len(chunk) = 2 ->
                 LET a == At(chunk, 0) - ASCII_OFFSET
                     b == At(chunk, 1) - ASCII_OFFSET
                     b0 == BitOr(Shl8(a, SHIFT_TWO_BITS), Shr(b, SHIFT_FOUR_BITS))
                     b1 == Shl8(BitAnd(b, MASK_FOUR_BITS), SHIFT_FOUR_BITS)
                 IN  [kind |-> "Ok",
                      bytes |-> Put(Put(out, byte_idx, b0), byte_idx + 1, b1)]
               [] Len(chunk) = 1 ->
                 LET a == At(chunk, 0) - ASCII_OFFSET
                 IN  [kind |-> "Ok",
                      bytes |-> Put(out, byte_idx, Shl8(a, SHIFT_TWO_BITS))]
               [] OTHER -> [kind |-> "Unreachable"]

\* encode, with the number of loop iterations and partial-chunk steps it ran
encode_run(s, build) ==
    IF ~is_ascii(s)
    THEN [kind |-> "Err", err |-> "InvalidCharacter", iters |-> 0, partial |-> 0]
    ELSE LET n == Len(s)
             need == bytes_needed(n)
             full_chunks == n \div 4
             remaining == n % 4
         IN  IF need.ovf /\ build = "debug"
             THEN [kind |-> "Panic", iters |-> 0, partial |-> 0]
             ELSE LET full == encode_full_chunks(s, Zeros(need.val), 0, full_chunks)
                  IN  IF full.kind # "Ok"
                      THEN IF full.kind = "Err"
                           THEN [kind |-> "Err", err |-> full.err,
                                 iters |-> full.iters, partial |-> 0]
                           ELSE [kind |-> full.kind, iters |-> full.iters, partial |-> 0]
                      ELSE IF remaining > 0
                      THEN LET rest == encode_remaining(s, full.bytes, full_chunks)
                           IN  IF rest.kind = "Ok"
                               THEN [kind |-> "Ok", bytes |-> rest.bytes, len |-> n,
                                     iters |-> full.iters, partial |-> 1]
                               ELSE IF rest.kind = "Err"
                               THEN [kind |-> "Err", err |-> rest.err,
                                     iters |-> full.iters, partial |-> 1]
                               ELSE [kind |-> rest.kind, iters |-> full.iters, partial |-> 1]
                      ELSE [kind |-> "Ok", bytes |-> full.bytes, len |-> n,
                            iters |-> full.iters, partial |-> 0]

\* pub fn encode(str: &str) -> Result<(Vec<u8>, usize), Error>
encode(s, build) ==
    LET r == encode_run(s, build)
    IN  CASE r.kind = "Ok" -> [kind |-> "Ok", bytes |-> r.bytes, len |-> r.len]
          [] r.kind = "Err" -> [kind |-> "Err", err |-> r.err]
          [] OTHER -> [kind |-> r.kind]

\* the loop over the full chunks of encode_unchecked, from chunk_idx on;
\* a code below ASCII_OFFSET underflows the u8 subtraction
RECURSIVE encode_unchecked_full_chunks(_, _, _, _, _)
encode_unchecked_full_chunks(s, out, chunk_idx, full_chunks, build) ==
    IF chunk_idx >= full_chunks
    THEN [kind |-> "Ok", bytes |-> out, iters |-> chunk_idx]
    ELSE LET start == chunk_idx * 4
             chunk == SubSeq(s, start + 1, start + 4)
         IN  IF build = "debug" /\ \E i \in 0..3 : At(chunk, i) < ASCII_OFFSET
             THEN [kind |-> "Panic", iters |-> chunk_idx]
             ELSE LET a == AsU8(At(chunk, 0) + 256 - ASCII_OFFSET)
                      b == AsU8(At(chunk, 1) + 256 - ASCII_OFFSET)
                      c == AsU8(At(chunk, 2) + 256 - ASCII_OFFSET)
                      d == AsU8(At(chunk, 3) + 256 - ASCII_OFFSET)
                      byte_idx == chunk_idx * 3
                      b0 == BitOr(Shl8(a, SHIFT_TWO_BITS), Shr(b, SHIFT_FOUR_BITS))
                      b1 == BitOr(Shl8(BitAnd(b, MASK_FOUR_BITS), SHIFT_FOUR_BITS),
                                  Shr(c, SHIFT_TWO_BITS))
                      b2 == BitOr(Shl8(BitAnd(c, MASK_TWO_BITS), SHIFT_SIX_BITS), d)
                  IN  IF byte_idx + 2 >= Len(out)
                      THEN [kind |-> "Panic", iters |-> chunk_idx]
                      ELSE encode_unchecked_full_chunks(s,
                               Put(Put(Put(out, byte_idx, b0), byte_idx + 1, b1),
                                   byte_idx + 2, b2),
                               chunk_idx + 1, full_chunks, build)

\* the match on the trailing 1..3 characters of encode_unchecked
encode_unchecked_remaining(s, out, full_chunks, build) ==
    LET start == full_chunks * 4
        chunk == SliceFrom(s, start)
        byte_idx == full_chunks * 3
    IN  IF build = "debug" /\ \E i \in 0..(Len(chunk) - 1) : At(chunk, i) < ASCII_OFFSET
        THEN [kind |-> "Panic"]
        ELSE IF byte_idx + Len(chunk) > Len(out)
        THEN [kind |-> "Panic"]
        ELSE CASE Len(chunk) = 3 ->
                 LET a == AsU8(At(chunk, 0) + 256 - ASCII_OFFSET)
                     b == AsU8(At(chunk, 1) + 256 - ASCII_OFFSET)
                     c == AsU8(At(chunk, 2) + 256 - ASCII_OFFSET)
                     b0 == BitOr(Shl8(a, SHIFT_TWO_BITS), Shr(b, SHIFT_FOUR_BITS))
                     b1 == BitOr(Shl8(BitAnd(b, MASK_FOUR_BITS), SHIFT_FOUR_BITS),
                                 Shr(c, SHIFT_TWO_BITS))
                     b2 == Shl8(BitAnd(c, MASK_TWO_BITS), SHIFT_SIX_BITS)
                 IN  [kind |-> "Ok",
                      bytes |-> Put(Put(Put(out, byte_idx, b0), byte_idx + 1, b1),
                                    byte_idx + 2, b2)]
               [] Len(chunk) = 2 ->
                 LET a == AsU8(At(chunk, 0) + 256 - ASCII_OFFSET)
                     b == AsU8(At(chunk, 1) + 256 - ASCII_OFFSET)
                     b0 == BitOr(Shl8(a, SHIFT_TWO_BITS), Shr(b, SHIFT_FOUR_BITS))
                     b1 == Shl8(BitAnd(b, MASK_FOUR_BITS), SHIFT_FOUR_BITS)
                 IN  [kind |-> "Ok",
                      bytes |-> Put(Put(out, byte_idx, b0), byte_idx + 1, b1)]
               [] Len(chunk) = 1 ->
                 LET a == AsU8(At(chunk, 0) + 256 - ASCII_OFFSET)
                 IN  [kind |-> "Ok",
                      bytes |-> Put(out, byte_idx, Shl8(a, SHIFT_TWO_BITS))]
               [] OTHER -> [kind |-> "Unreachable"]

\* encode_unchecked, with the number of loop iterations and partial-chunk
\* steps it ran
encode_unchecked_run(s, build) ==
    LET n == Len(s)
        need == bytes_needed(n)
        full_chunks == n \div 4
        remaining == n % 4
    IN  IF need.ovf /\ build = "debug"
        THEN [kind |-> "Panic", iters |-> 0, partial |-> 0]
        ELSE LET full == encode_unchecked_full_chunks(s, Zeros(need.val), 0,
                                                      full_chunks, build)
             IN  IF full.kind # "Ok"
                 THEN [kind |-> full.kind, iters |-> full.iters, partial |-> 0]
                 ELSE IF remaining > 0
                 THEN LET rest == encode_unchecked_remaining(s, full.bytes,
                                                             full_chunks, build)
                      IN  IF rest.kind = "Ok"
                          THEN [kind |-> "Ok", bytes |-> rest.bytes, len |-> n,
                                iters |-> full.iters, partial |-> 1]
                          ELSE [kind |-> rest.kind, iters |-> full.iters, partial |-> 1]
                 ELSE [kind |-> "Ok", bytes |-> full.bytes, len |-> n,
                       iters |-> full.iters, partial |-> 0]

\* an encode_unchecked that reports the packed size as the length
encode_unchecked_packed_len(s, build) ==
    LET r == encode_unchecked_run(s, build)
    IN  IF r.kind = "Ok"
        THEN [kind |-> "Ok", bytes |-> r.bytes, len |-> Len(r.bytes)]
        ELSE [kind |-> r.kind]

\* pub fn encode_unchecked(str: &str) -> (Vec<u8>, usize)
encode_unchecked(s, build) ==
    LET r == encode_unchecked_run(s, build)
    IN  IF r.kind = "Ok"
        THEN [kind |-> "Ok", bytes |-> r.bytes, len |-> r.len]
        ELSE [kind |-> r.kind]

(***************************************************************************)
(* decode.rs                                                               *)
(***************************************************************************)
\* what a read past the end of the buffer can deliver: a byte that happens
\* to lie there, or (-1) a fault of the process
OobOutcomes == {-1, 165}

\* *b.get_unchecked(i): inside the buffer the byte, outside it whatever oob is
get_unchecked(b, i, oob) == IF i < Len(b) THEN At(b, i) ELSE oob

\* an expected byte count that rounds down instead of up
expected_bytes_floor(n) ==
    [ovf |-> n * 6 > UsizeMax,
     val |-> ((n * 6) % UsizeMod) \div 8]

\* (len * 6 + 7) / 8 in usize arithmetic: ovf tells that a step overflowed,
\* val is the wrapped result
expected_bytes(n) ==
    [ovf |-> n * 6 + 7 > UsizeMax,
     val |-> ((((n * 6) % UsizeMod) + 7) % UsizeMod) \div 8]

\* the loop over the full 3-byte groups of decode_core, from chunk_idx on
RECURSIVE decode_full_chunks(_, _, _, _, _)
decode_full_chunks(b, acc, chunk_idx, full_chunks, oob) ==
    IF chunk_idx >= full_chunks
    THEN acc
    ELSE LET byte_idx == chunk_idx * 3
             b0 == get_unchecked(b, byte_idx, oob)
             b1 == get_unchecked(b, byte_idx + 1, oob)
             b2 == get_unchecked(b, byte_idx + 2, oob)
         IN  IF byte_idx + 2 >= Len(b) /\ oob = -1
             THEN [acc EXCEPT !.kind = "Fault", !.ub = TRUE,
                              !.reads = @ \cup {byte_idx, byte_idx + 1, byte_idx + 2}]
             ELSE LET combined == BitOr(BitOr(ShlWide(b0, 16), ShlWide(b1, 8)), b2)
                      a == BitAnd(AsU8(Shr(combined, 18)), MASK_SIX_BITS) + ASCII_OFFSET
                      bb == BitAnd(AsU8(Shr(combined, 12)), MASK_SIX_BITS) + ASCII_OFFSET
                      c == BitAnd(AsU8(Shr(combined, 6)), MASK_SIX_BITS) + ASCII_OFFSET
                      d == BitAnd(AsU8(combined), MASK_SIX_BITS) + ASCII_OFFSET
                  IN  decode_full_chunks(b,
                          [acc EXCEPT !.text = @ \o <<a, bb, c, d>>,
                                      !.iters = @ + 1,
                                      !.ub = @ \/ (byte_idx + 2 >= Len(b)),
                                      !.reads = @ \cup {byte_idx, byte_idx + 1, byte_idx + 2}],
                          chunk_idx + 1, full_chunks, oob)

\* a partial step whose single-character arm forgets the shift that drops
\* the two padding bits
decode_remaining_unshifted(b, acc, full_chunks, remaining_chars, oob) ==
    LET start_byte == full_chunks * 3
        last_read == start_byte + remaining_chars - 1
        b0 == get_unchecked(b, start_byte, oob)
        b1 == get_unchecked(b, start_byte + 1, oob)
        b2 == get_unchecked(b, start_byte + 2, oob)
        seen == [acc EXCEPT !.partial = 1,
                            !.ub = @ \/ (last_read >= Len(b)),
                            !.reads = @ \cup (start_byte..last_read)]
    IN  IF start_byte > Len(b)
        THEN [acc EXCEPT !.kind = "Panic", !.partial = 1]
        ELSE IF last_read >= Len(b) /\ oob = -1
        THEN [seen EXCEPT !.kind = "Fault"]
        ELSE CASE remaining_chars = 1 ->
                 [seen EXCEPT !.text = @ \o <<AsU8(b0 + ASCII_OFFSET)>>]
               [] remaining_chars = 2 ->
                 LET combined == BitOr(ShlWide(b0, 8), b1)
                     a == BitAnd(AsU8(Shr(combined, 10)), MASK_SIX_BITS) + ASCII_OFFSET
                     bb == BitAnd(AsU8(Shr(combined, 4)), MASK_SIX_BITS) + ASCII_OFFSET
                 IN  [seen EXCEPT !.text = @ \o <<a, bb>>]
               [] remaining_chars = 3 ->
                 LET combined == BitOr(BitOr(ShlWide(b0, 16), ShlWide(b1, 8)), b2)
                     a == BitAnd(AsU8(Shr(combined, 18)), MASK_SIX_BITS) + ASCII_OFFSET
                     bb == BitAnd(AsU8(Shr(combined, 12)), MASK_SIX_BITS) + ASCII_OFFSET
                     c == BitAnd(AsU8(Shr(combined, 6)), MASK_SIX_BITS) + ASCII_OFFSET
                 IN  [seen EXCEPT !.text = @ \o <<a, bb, c>>]
               [] OTHER -> [acc EXCEPT !.kind = "Unreachable", !.partial = 1]

\* the match on the 1..3 remaining characters of decode_core
decode_remaining(b, acc, full_chunks, remaining_chars, oob) ==
    LET start_byte == full_chunks * 3
        last_read == start_byte + remaining_chars - 1
        b0 == get_unchecked(b, start_byte, oob)
        b1 == get_unchecked(b, start_byte + 1, oob)
        b2 == get_unchecked(b, start_byte + 2, oob)
        seen == [acc EXCEPT !.partial = 1,
                            !.ub = @ \/ (last_read >= Len(b)),
                            !.reads = @ \cup (start_byte..last_read)]
    IN  IF start_byte > Len(b)
        THEN [acc EXCEPT !.kind = "Panic", !.partial = 1]
        ELSE IF last_read >= Len(b) /\ oob = -1
        THEN [seen EXCEPT !.kind = "Fault"]
        ELSE CASE remaining_chars = 1 ->
                 [seen EXCEPT !.text = @ \o <<Shr(b0, 2) + ASCII_OFFSET>>]
               [] remaining_chars = 2 ->
                 LET combined == BitOr(ShlWide(b0, 8), b1)
                     a == BitAnd(AsU8(Shr(combined, 10)), MASK_SIX_BITS) + ASCII_OFFSET
                     bb == BitAnd(AsU8(Shr(combined, 4)), MASK_SIX_BITS) + ASCII_OFFSET
                 IN  [seen EXCEPT !.text = @ \o <<a, bb>>]
               [] remaining_chars = 3 ->
                 LET combined == BitOr(BitOr(ShlWide(b0, 16), ShlWide(b1, 8)), b2)
                     a == BitAnd(AsU8(Shr(combined, 18)), MASK_SIX_BITS) + ASCII_OFFSET
                     bb == BitAnd(AsU8(Shr(combined, 12)), MASK_SIX_BITS) + ASCII_OFFSET
                     c == BitAnd(AsU8(Shr(combined, 6)), MASK_SIX_BITS) + ASCII_OFFSET
                 IN  [seen EXCEPT !.text = @ \o <<a, bb, c>>]
               [] OTHER -> [acc EXCEPT !.kind = "Unreachable", !.partial = 1]

\* a decode_core that rounds the number of full chunks up
decode_core_round_up(b, n, oob) ==
    LET start == [kind |-> "Ok", text |-> <<>>, reads |-> {}, ub |-> FALSE,
                  iters |-> 0, partial |-> 0]
    IN  IF n = 0
        THEN start
        ELSE IF n > IsizeMax
        THEN [start EXCEPT !.kind = "Panic"]
        ELSE LET full_chunks == (n + 3) \div 4
                 remaining_chars == n % 4
                 full == decode_full_chunks(b, start, 0, full_chunks, oob)
             IN  IF full.kind # "Ok"
                 THEN full
                 ELSE IF remaining_chars > 0
                 THEN decode_remaining(b, full, full_chunks, remaining_chars, oob)
                 ELSE full

\* fn decode_core(bytes: &[u8], len: usize) -> String, together with the
\* byte indices it read, whether a read left the buffer (ub), and the loop
\* iterations and partial steps it ran
decode_core(b, n, oob) ==
    LET start == [kind |-> "Ok", text |-> <<>>, reads |-> {}, ub |-> FALSE,
                  iters |-> 0, partial |-> 0]
    IN  IF n = 0
        THEN start
        ELSE IF n > IsizeMax
        THEN [start EXCEPT !.kind = "Panic"]
        ELSE LET full_chunks == n \div 4
                 remaining_chars == n % 4
                 full == decode_full_chunks(b, start, 0, full_chunks, oob)
             IN  IF full.kind # "Ok"
                 THEN full
                 ELSE IF remaining_chars > 0
                 THEN decode_remaining(b, full, full_chunks, remaining_chars, oob)
                 ELSE full

\* a decode that accepts every buffer at least as long as the expected size
decode_at_least(b, n, build, oob) ==
    LET want == expected_bytes(n)
    IN  IF want.ovf /\ build = "debug"
        THEN [kind |-> "Panic", reads |-> {}, ub |-> FALSE]
        ELSE IF Len(b) < want.val
        THEN [kind |-> "Err", err |-> "InvalidBytesLength", reads |-> {}, ub |-> FALSE]
        ELSE decode_core(b, n, oob)

\* a decode that returns the empty text for length 0 before it checks the
\* buffer size
decode_zero_first(b, n, build, oob) ==
    LET want == expected_bytes(n)
    IN  IF n = 0
        THEN decode_core(b, n, oob)
        ELSE IF want.ovf /\ build = "debug"
        THEN [kind |-> "Panic", reads |-> {}, ub |-> FALSE]
        ELSE IF Len(b) # want.val
        THEN [kind |-> "Err", err |-> "InvalidBytesLength", reads |-> {}, ub |-> FALSE]
        ELSE decode_core(b, n, oob)

\* a decode that rejects a buffer whose unused low bits are not zero
decode_strict(b, n, build, oob) ==
    LET want == expected_bytes(n)
    IN  IF want.ovf /\ build = "debug"
        THEN [kind |-> "Panic", reads |-> {}, ub |-> FALSE]
        ELSE IF Len(b) # want.val
        THEN [kind |-> "Err", err |-> "InvalidBytesLength", reads |-> {}, ub |-> FALSE]
        ELSE IF Len(b) > 0 /\ b[Len(b)] % Pow2(2 * (n % 4)) # 0
        THEN [kind |-> "Err", err |-> "InvalidBytesLength", reads |-> {}, ub |-> FALSE]
        ELSE decode_core(b, n, oob)

\* pub fn decode(bytes: &[u8], len: usize) -> Result<String, Error>
decode(b, n, build, oob) ==
    LET want == expected_bytes(n)
    IN  IF want.ovf /\ build = "debug"
        THEN [kind |-> "Panic", reads |-> {}, ub |-> FALSE]
        ELSE IF Len(b) # want.val
        THEN [kind |-> "Err", err |-> "InvalidBytesLength", reads |-> {}, ub |-> FALSE]
        ELSE decode_core(b, n, oob)

\* a decode_unchecked that derives the length from the byte count
decode_unchecked_from_size(b, n, oob) == decode_core(b, (Len(b) * 4) \div 3, oob)

\* pub fn decode_unchecked(bytes: &[u8], len: usize) -> String
decode_unchecked(b, n, oob) == decode_core(b, n, oob)

(***************************************************************************)
(* struct_api.rs                                                           *)
(***************************************************************************)
\* struct DecSixbit { len, bytes }
DecSixbit(n, b) == [len |-> n, bytes |-> b]

\* bytes.last().unwrap()
last(b) == b[Len(b)]

\* a constructor that marks every text whose length is a positive multiple
\* of 4, whatever its last byte
new_always_marked(s, build) ==
    LET r == encode(s, build)
    IN  IF r.kind # "Ok"
        THEN r
        ELSE IF r.len % 4 = 0 /\ r.len # 0
        THEN [kind |-> "Ok",
              val |-> DecSixbit(r.len, Append(r.bytes, TRAILING_SPACE_MARKER))]
        ELSE [kind |-> "Ok", val |-> DecSixbit(r.len, r.bytes)]

\* a constructor that stores the bytes of encode alone
new_unmarked(s, build) ==
    LET r == encode(s, build)
    IN  IF r.kind # "Ok"
        THEN r
        ELSE [kind |-> "Ok", val |-> DecSixbit(r.len, r.bytes)]

\* pub fn new(str: &str) -> Result<Self, Error>
new(s, build) ==
    LET r == encode(s, build)
    IN  IF r.kind # "Ok"
        THEN r
        ELSE IF r.len % 4 = 0 /\ r.len # 0 /\ BitAnd(last(r.bytes), 63) = 0
        THEN [kind |-> "Ok",
              val |-> DecSixbit(r.len, Append(r.bytes, TRAILING_SPACE_MARKER))]
        ELSE [kind |-> "Ok", val |-> DecSixbit(r.len, r.bytes)]

\* a try_from_slice that takes a single remaining byte as a character even
\* when it is the marker
try_from_slice_unmarked(b) ==
    LET num_full_blocks == Len(b) \div 3
        num_remain_bytes == Len(b) % 3
    IN  CASE num_remain_bytes = 0 ->
             [kind |-> "Ok", val |-> DecSixbit(num_full_blocks * 4, b)]
          [] num_remain_bytes = 1 ->
             [kind |-> "Ok", val |-> DecSixbit(num_full_blocks * 4 + 1, b)]
          [] num_remain_bytes = 2 ->
             [kind |-> "Ok", val |-> DecSixbit(num_full_blocks * 4 + 2, b)]
          [] OTHER -> [kind |-> "Unreachable"]

\* a try_from_slice that splits the byte count by 4 instead of 3, so that a
\* remainder of 3 reaches the unreachable!() arm
try_from_slice_mod4(b) ==
    LET num_full_blocks == Len(b) \div 4
        num_remain_bytes == Len(b) % 4
    IN  CASE num_remain_bytes = 0 ->
             [kind |-> "Ok", val |-> DecSixbit(num_full_blocks * 4, b)]
          [] num_remain_bytes = 1 ->
             IF last(b) = TRAILING_SPACE_MARKER
             THEN [kind |-> "Ok", val |-> DecSixbit(num_full_blocks * 4, b)]
             ELSE [kind |-> "Ok", val |-> DecSixbit(num_full_blocks * 4 + 1, b)]
          [] num_remain_bytes = 2 ->
             [kind |-> "Ok", val |-> DecSixbit(num_full_blocks * 4 + 2, b)]
          [] OTHER -> [kind |-> "Unreachable"]

\* pub fn try_from_slice(bytes: &[u8]) -> Result<Self, Error>
try_from_slice(b) ==
    LET num_full_blocks == Len(b) \div 3
        num_remain_bytes == Len(b) % 3
    IN  CASE num_remain_bytes = 0 ->
             [kind |-> "Ok", val |-> DecSixbit(num_full_blocks * 4, b)]
          [] num_remain_bytes = 1 ->
             IF last(b) = TRAILING_SPACE_MARKER
             THEN [kind |-> "Ok", val |-> DecSixbit(num_full_blocks * 4, b)]
             ELSE [kind |-> "Ok", val |-> DecSixbit(num_full_blocks * 4 + 1, b)]
          [] num_remain_bytes = 2 ->
             [kind |-> "Ok", val |-> DecSixbit(num_full_blocks * 4 + 2, b)]
          [] OTHER -> [kind |-> "Unreachable"]

\* a Display that goes through the checked decoder
to_string_checked(sb, oob) == decode(sb.bytes, sb.len, "release", oob)

\* a Display that drops the marker byte from the slice it hands over
display_bytes_stripped(sb) ==
    IF /\ sb.len % 4 = 0
       /\ Len(sb.bytes) = (sb.len \div 4) * 3 + 1
       /\ last(sb.bytes) = TRAILING_SPACE_MARKER
    THEN SubSeq(sb.bytes, 1, Len(sb.bytes) - 1)
    ELSE sb.bytes

\* the slice Display hands to decode_unchecked: &self.bytes
display_bytes(sb) == sb.bytes

\* impl fmt::Display for DecSixbit (to_string)
to_string(sb, oob) == decode_unchecked(display_bytes(sb), sb.len, oob)

\* the values of the serde data model the two impls exchange with a format
Str(t) == [type |-> "str", text |-> t]

Tuple(n, b) == [type |-> "tuple", len |-> n, bytes |-> b]

\* impl serde::Serialize for DecSixbit
serialize(sb, human, oob) ==
    IF human
    THEN LET r == to_string(sb, oob)
         IN  IF r.kind = "Ok"
             THEN [kind |-> "Ok", val |-> Str(r.text)]
             ELSE [kind |-> r.kind]
    ELSE [kind |-> "Ok", val |-> Tuple(sb.len, sb.bytes)]

\* .map_err(E::custom): an error of the crate becomes an error of the format
map_err_custom(r) == IF r.kind = "Err" THEN [kind |-> "Err", err |-> "custom"] ELSE r

\* a Deserialize that rebuilds the binary form from its bytes alone
deserialize_via_slice(data, human, build) ==
    IF human
    THEN IF data.type = "str"
         THEN map_err_custom(new(data.text, build))
         ELSE [kind |-> "Err", err |-> "invalid type"]
    ELSE IF data.type = "tuple"
         THEN try_from_slice(data.bytes)
         ELSE [kind |-> "Err", err |-> "invalid type"]

\* impl serde::Deserialize for DecSixbit (with DecSixbitVisitor::visit_str)
deserialize(data, human, build) ==
    IF human
    THEN IF data.type = "str"
         THEN map_err_custom(new(data.text, build))
         ELSE [kind |-> "Err", err |-> "invalid type"]
    ELSE IF data.type = "tuple"
         THEN [kind |-> "Ok", val |-> DecSixbit(data.len, data.bytes)]
         ELSE [kind |-> "Err", err |-> "invalid type"]

\* Ord for usize
cmp_usize(a, b) ==
    IF a < b THEN "Less" ELSE IF a > b THEN "Greater" ELSE "Equal"

\* Ord for [u8] and for str: byte by byte, a proper prefix is less
RECURSIVE cmp_slice(_, _)
cmp_slice(a, b) ==
    IF a = <<>> /\ b = <<>> THEN "Equal"
    ELSE IF a = <<>> THEN "Less"
    ELSE IF b = <<>> THEN "Greater"
    ELSE IF Head(a) < Head(b) THEN "Less"
    ELSE IF Head(a) > Head(b) THEN "Greater"
    ELSE cmp_slice(Tail(a), Tail(b))

\* #[derive(PartialOrd, Ord)] on DecSixbit: the fields in declaration order,
\* len first, then bytes
cmp(x, y) ==
    LET by_len == cmp_usize(x.len, y.len)
    IN  IF by_len # "Equal" THEN by_len ELSE cmp_slice(x.bytes, y.bytes)

\* pub fn as_bytes(&self) -> &[u8]
as_bytes(sb) == sb.bytes

\* #[derive(PartialEq, Eq)]: equal fields
eq(x, y) == x.len = y.len /\ x.bytes = y.bytes

\* Option<char>
Some(c) == [some |-> TRUE, val |-> c]

None == [some |-> FALSE]

\* String::chars(): the code points of a UTF-8 string (one- and two-byte
\* sequences)
RECURSIVE chars(_)
chars(t) ==
    IF t = <<>> THEN <<>>
    ELSE IF Head(t) < 128 THEN <<Head(t)>> \o chars(Tail(t))
    ELSE IF Len(t) >= 2
    THEN <<(Head(t) % 32) * 64 + (t[2] % 64)>> \o chars(SubSeq(t, 3, Len(t)))
    ELSE <<65533>>

\* Iterator::nth
nth(cs, index) == IF index < Len(cs) THEN Some(At(cs, index)) ELSE None

\* a get that counts positions from 1
get_one_based(sb, index, oob) ==
    LET r == to_string(sb, oob)
    IN  IF r.kind = "Ok"
        THEN [kind |-> "Ok",
              val |-> IF index = 0 THEN None ELSE nth(chars(r.text), index - 1)]
        ELSE [kind |-> r.kind]

\* pub fn get(&self, index: usize) -> Option<char>
get(sb, index, oob) ==
    LET r == to_string(sb, oob)
    IN  IF r.kind = "Ok"
        THEN [kind |-> "Ok", val |-> nth(chars(r.text), index)]
        ELSE [kind |-> r.kind]

\* pub fn len(&self) -> usize
DecSixbit_len(sb) == sb.len

\* pub fn is_empty(&self) -> bool
is_empty(sb) == sb.len = 0

\* str::starts_with, str::ends_with and str::contains on a text pattern
str_starts_with(t, p) == Len(p) <= Len(t) /\ SubSeq(t, 1, Len(p)) = p

str_ends_with(t, p) ==
    Len(p) <= Len(t) /\ SubSeq(t, Len(t) - Len(p) + 1, Len(t)) = p

str_contains(t, p) ==
    \E i \in 0..(Len(t) - Len(p)) : SubSeq(t, i + 1, i + Len(p)) = p

\* pub fn starts_with<P: AsRef<str>>(&self, prefix: P) -> bool
starts_with(sb, prefix, oob) ==
    LET r == to_string(sb, oob)
    IN  IF r.kind = "Ok"
        THEN [kind |-> "Ok", val |-> str_starts_with(r.text, prefix)]
        ELSE [kind |-> r.kind]

\* pub fn ends_with<P: AsRef<str>>(&self, suffix: P) -> bool
ends_with(sb, suffix, oob) ==
    LET r == to_string(sb, oob)
    IN  IF r.kind = "Ok"
        THEN [kind |-> "Ok", val |-> str_ends_with(r.text, suffix)]
        ELSE [kind |-> r.kind]

\* pub fn contains<P: AsRef<str>>(&self, substring: P) -> bool
contains(sb, substring, oob) ==
    LET r == to_string(sb, oob)
    IN  IF r.kind = "Ok"
        THEN [kind |-> "Ok", val |-> str_contains(r.text, substring)]
        ELSE [kind |-> r.kind]

\* #[derive(Default)]: DecSixbit { len: 0, bytes: vec![] }
default == DecSixbit(0, <<>>)

(***************************************************************************)
(* Inputs.                                                                 *)
(***************************************************************************)
\* the characters a caller's text is built from, each as its UTF-8 bytes:
\* ' ', 'A', '_' are SIXBIT characters; 0x1F and '`' are not
Symbols1 == {<<32>>, <<65>>, <<95>>, <<31>>, <<96>>}

\* U+00E9, a two-byte non-ASCII character
Symbols2 == {<<195, 169>>}

\* the texts of exactly n bytes
RECURSIVE TextsOfLen(_)
TextsOfLen(n) ==
    IF n = 0
    THEN {<<>>}
    ELSE LET one == TextsOfLen(n - 1)
             two == IF n >= 2 THEN TextsOfLen(n - 2) ELSE {}
         IN  {t \o sym : t \in one, sym \in Symbols1}
                 \cup {t \o sym : t \in two, sym \in Symbols2}

Texts == UNION {TextsOfLen(n) : n \in 0..MaxLen}

\* the byte values a caller's buffer is built from: between them every bit
\* of a byte is set in one value and clear in another
BufferBytes == {0, 90, 165}

Buffers == UNION {[1..n -> BufferBytes] : n \in 0..MaxBytes}

\* the byte values a caller's slice is built from: the marker and two others
SliceBytes == {0, 3, 165}

Slices == UNION {[1..n -> SliceBytes] : n \in 0..MaxBytes}

\* every byte of s is a SIXBIT character code
valid_text(s) == \A i \in 1..Len(s) : s[i] >= 32 /\ s[i] <= 95

\* ceil(p / q) over the integers
CeilDiv(p, q) == (p + q - 1) \div q

(***************************************************************************)
(* The state machine: a caller holds a text, a (bytes, len) pair or a byte *)
(* slice and applies the crate's operations to what it holds.              *)
(***************************************************************************)
Fresh ==
    /\ sixbit = NoValue
    /\ rebuilt = NoValue
    /\ text = NoValue
    /\ reads = {}
    /\ err = "none"
    /\ hist = <<>>
    /\ arg = NoValue
    /\ res = NoValue

\* the caller holds a text
InitText ==
    pc = "text" /\ str \in Texts /\ bytes = <<>> /\ len = 0 /\ wire = NoValue /\ Fresh

\* the caller holds a byte buffer and a claimed length
InitPair ==
    /\ pc = "pair" /\ str = <<>> /\ bytes \in Buffers /\ len \in 0..UsizeMax
    /\ wire = NoValue /\ Fresh

\* the caller holds a byte buffer and a claimed length of at most twice the
\* longest text, or the largest usize
InitLoopPair ==
    /\ pc = "pair" /\ str = <<>> /\ bytes \in Buffers
    /\ len \in (0..(2 * MaxLen)) \cup {UsizeMax}
    /\ wire = NoValue /\ Fresh

\* the caller holds a byte slice
InitSlice ==
    pc = "slice" /\ str = <<>> /\ bytes \in Slices /\ len = 0 /\ wire = NoValue /\ Fresh

\* the caller holds serialized data: a string in a human-readable format,
\* a (usize, Vec<u8>) pair in a binary one
InitWire ==
    /\ pc = "wire" /\ str = <<>> /\ bytes = <<>> /\ len = 0
    /\ \/ \E t \in Texts : wire = [human |-> TRUE, data |-> Str(t)]
       \/ \E n \in 0..UsizeMax, b \in Buffers :
              wire = [human |-> FALSE, data |-> Tuple(n, b)]
    /\ Fresh

\* the texts a caller compares an envelope's text with
Operands == UNION {[1..n -> {32, 65}] : n \in 0..MaxLen}

\* the indices a caller asks get for
Indices == (0..(MaxLen + 1)) \cup {UsizeMax}

\* the slices a caller builds a second envelope from
OtherSlices == UNION {[1..n -> {0, 3}] : n \in 0..MaxBytes}

\* the second envelope of a comparison, built by new from a text or by
\* try_from_slice from a slice
OtherEnvelopes ==
    {[from |-> "new", input |-> t, val |-> new(t, "release").val] :
        t \in Operands}
    \cup {[from |-> "try_from_slice", input |-> b,
           val |-> try_from_slice(b).val] : b \in OtherSlices}

\* the patterns a caller queries an envelope's text for
Patterns == UNION {[1..n -> {32, 65}] : n \in 0..2}

\* the caller's state after an operation that produced no value
Failed(r) ==
    /\ pc' = "failed"
    /\ err' = (IF r.kind = "Err" THEN r.err ELSE r.kind)

Encode ==
    /\ pc = "text"
    /\ \E build \in Builds :
         \E r \in {encode(str, build)} :
             IF r.kind = "Ok"
             THEN /\ bytes' = r.bytes
                  /\ len' = r.len
                  /\ pc' = "pair"
                  /\ err' = err
             ELSE /\ Failed(r)
                  /\ UNCHANGED <<bytes, len>>
    /\ hist' = Append(hist, "encode")
    /\ UNCHANGED <<str, sixbit, rebuilt, text, reads, arg, res, wire>>

EncodeUnchecked ==
    /\ pc = "text"
    /\ \E build \in Builds :
         \E r \in {encode_unchecked(str, build)} :
             IF r.kind = "Ok"
             THEN /\ bytes' = r.bytes
                  /\ len' = r.len
                  /\ pc' = "pair"
                  /\ err' = err
             ELSE /\ Failed(r)
                  /\ UNCHANGED <<bytes, len>>
    /\ hist' = Append(hist, "encode_unchecked")
    /\ UNCHANGED <<str, sixbit, rebuilt, text, reads, arg, res, wire>>

Decode ==
    /\ pc = "pair"
    /\ \E build \in Builds, oob \in OobOutcomes :
         \E r \in {decode(bytes, len, build, oob)} :
             /\ reads' = r.reads
             /\ IF r.kind = "Ok"
                THEN /\ text' = r.text
                     /\ pc' = "done"
                     /\ err' = err
                ELSE /\ Failed(r)
                     /\ text' = text
    /\ hist' = Append(hist, "decode")
    /\ UNCHANGED <<str, bytes, len, sixbit, rebuilt, arg, res, wire>>

DecodeUnchecked ==
    /\ pc = "pair"
    /\ \E oob \in OobOutcomes :
         \E r \in {decode_unchecked(bytes, len, oob)} :
             /\ reads' = r.reads
             /\ IF r.kind = "Ok"
                THEN /\ text' = r.text
                     /\ pc' = "done"
                     /\ err' = err
                ELSE /\ Failed(r)
                     /\ text' = text
    /\ hist' = Append(hist, "decode_unchecked")
    /\ UNCHANGED <<str, bytes, len, sixbit, rebuilt, arg, res, wire>>

New ==
    /\ pc = "text"
    /\ \E build \in Builds :
         \E r \in {new(str, build)} :
             IF r.kind = "Ok"
             THEN /\ sixbit' = r.val
                  /\ pc' = "envelope"
                  /\ err' = err
             ELSE /\ Failed(r)
                  /\ sixbit' = sixbit
    /\ hist' = Append(hist, "new")
    /\ UNCHANGED <<str, bytes, len, rebuilt, text, reads, arg, res, wire>>

\* try_from_slice on the caller's slice, or on as_bytes() of the envelope
TryFromSlice ==
    /\ pc \in {"slice", "envelope"}
    /\ \E r \in {try_from_slice(IF pc = "slice" THEN bytes ELSE sixbit.bytes)} :
           IF r.kind = "Ok"
           THEN /\ rebuilt' = r.val
                /\ pc' = "rebuilt"
                /\ err' = err
           ELSE /\ Failed(r)
                /\ rebuilt' = rebuilt
    /\ hist' = Append(hist, "try_from_slice")
    /\ UNCHANGED <<str, bytes, len, sixbit, text, reads, arg, res, wire>>

\* a Display that drops the marker byte from the stored bytes before it
\* decodes them
RenderInPlace ==
    /\ pc \in {"envelope", "rebuilt"}
    /\ \E oob \in OobOutcomes :
         \E r \in {to_string(IF pc = "rebuilt" THEN rebuilt ELSE sixbit, oob)} :
             /\ reads' = r.reads
             /\ IF r.kind = "Ok"
                THEN /\ text' = r.text
                     /\ pc' = "done"
                     /\ err' = err
                ELSE /\ Failed(r)
                     /\ text' = text
    /\ arg' = display_bytes(IF pc = "rebuilt" THEN rebuilt ELSE sixbit)
    /\ IF pc = "rebuilt"
       THEN /\ rebuilt' = [rebuilt EXCEPT !.bytes = display_bytes_stripped(rebuilt)]
            /\ sixbit' = sixbit
       ELSE /\ sixbit' = [sixbit EXCEPT !.bytes = display_bytes_stripped(sixbit)]
            /\ rebuilt' = rebuilt
    /\ hist' = Append(hist, "to_string")
    /\ UNCHANGED <<str, bytes, len, res, wire>>

\* to_string of the envelope last constructed; arg records the slice that
\* Display hands to the decoder
Render ==
    /\ pc \in {"envelope", "rebuilt"}
    /\ \E oob \in OobOutcomes :
         \E r \in {to_string(IF pc = "rebuilt" THEN rebuilt ELSE sixbit, oob)} :
             /\ reads' = r.reads
             /\ IF r.kind = "Ok"
                THEN /\ text' = r.text
                     /\ pc' = "done"
                     /\ err' = err
                ELSE /\ Failed(r)
                     /\ text' = text
    /\ arg' = display_bytes(IF pc = "rebuilt" THEN rebuilt ELSE sixbit)
    /\ hist' = Append(hist, "to_string")
    /\ UNCHANGED <<str, bytes, len, sixbit, rebuilt, res, wire>>

\* decode applied to the stored pair of the envelope, as
\* test_decode_unchecked_integrity does
DecodeStored ==
    /\ pc = "envelope"
    /\ \E build \in Builds, oob \in OobOutcomes :
         \E r \in {decode(sixbit.bytes, sixbit.len, build, oob)} :
             /\ reads' = r.reads
             /\ IF r.kind = "Ok"
                THEN /\ text' = r.text
                     /\ pc' = "done"
                     /\ err' = err
                ELSE /\ Failed(r)
                     /\ text' = text
    /\ hist' = Append(hist, "decode")
    /\ UNCHANGED <<str, bytes, len, sixbit, rebuilt, arg, res, wire>>

\* serialization of the envelope in a human-readable or a binary format
Serialize ==
    /\ pc = "envelope"
    /\ \E human \in BOOLEAN, oob \in OobOutcomes :
         \E r \in {serialize(sixbit, human, oob)} :
             IF r.kind = "Ok"
             THEN /\ wire' = [human |-> human, data |-> r.val]
                  /\ pc' = "wire"
                  /\ err' = err
             ELSE /\ Failed(r)
                  /\ wire' = wire
    /\ hist' = Append(hist, "serialize")
    /\ UNCHANGED <<str, bytes, len, sixbit, rebuilt, text, reads, arg, res>>

\* deserialization of the data the caller holds, in the format it is in
Deserialize ==
    /\ pc = "wire"
    /\ \E build \in Builds :
         \E r \in {deserialize(wire.data, wire.human, build)} :
             IF r.kind = "Ok"
             THEN /\ rebuilt' = r.val
                  /\ pc' = "rebuilt"
                  /\ err' = err
             ELSE /\ Failed(r)
                  /\ rebuilt' = rebuilt
    /\ hist' = Append(hist, "deserialize")
    /\ UNCHANGED <<str, bytes, len, sixbit, text, reads, arg, res, wire>>

\* comparison of the envelope with the envelope of another text
Compare ==
    /\ pc = "envelope"
    /\ \E t \in Operands, build \in Builds :
         \E other \in {new(t, build)} :
             /\ arg' = t
             /\ IF other.kind = "Ok"
                THEN /\ res' = cmp(sixbit, other.val)
                     /\ pc' = "compared"
                     /\ err' = err
                ELSE /\ Failed(other)
                     /\ res' = res
    /\ hist' = Append(hist, "cmp")
    /\ UNCHANGED <<str, bytes, len, sixbit, rebuilt, text, reads, wire>>

Get ==
    /\ pc = "envelope"
    /\ \E index \in Indices, oob \in OobOutcomes :
         \E r \in {get(sixbit, index, oob)} :
             /\ arg' = index
             /\ IF r.kind = "Ok"
                THEN /\ res' = r.val
                     /\ pc' = "got"
                     /\ err' = err
                ELSE /\ Failed(r)
                     /\ res' = res
    /\ hist' = Append(hist, "get")
    /\ UNCHANGED <<str, bytes, len, sixbit, rebuilt, text, reads, wire>>

\* a == b for the envelope last constructed and a second envelope
Eq ==
    /\ pc \in {"envelope", "rebuilt"}
    /\ \E other \in OtherEnvelopes :
         /\ arg' = other
         /\ res' = eq(IF pc = "rebuilt" THEN rebuilt ELSE sixbit, other.val)
    /\ pc' = "compared"
    /\ hist' = Append(hist, "eq")
    /\ UNCHANGED <<str, bytes, len, sixbit, rebuilt, text, reads, err, wire>>

\* the accessors and the text queries of the envelope built from the
\* caller's text
AsBytes ==
    /\ pc = "envelope"
    /\ res' = as_bytes(sixbit)
    /\ pc' = "got"
    /\ hist' = Append(hist, "as_bytes")
    /\ UNCHANGED <<str, bytes, len, sixbit, rebuilt, text, reads, err, arg, wire>>

Length ==
    /\ pc = "envelope"
    /\ res' = DecSixbit_len(sixbit)
    /\ pc' = "got"
    /\ hist' = Append(hist, "len")
    /\ UNCHANGED <<str, bytes, len, sixbit, rebuilt, text, reads, err, arg, wire>>

IsEmpty ==
    /\ pc = "envelope"
    /\ res' = is_empty(sixbit)
    /\ pc' = "got"
    /\ hist' = Append(hist, "is_empty")
    /\ UNCHANGED <<str, bytes, len, sixbit, rebuilt, text, reads, err, arg, wire>>

StartsWith ==
    /\ pc = "envelope"
    /\ \E prefix \in Patterns, oob \in OobOutcomes :
         \E r \in {starts_with(sixbit, prefix, oob)} :
             /\ arg' = prefix
             /\ IF r.kind = "Ok"
                THEN /\ res' = r.val /\ pc' = "got" /\ err' = err
                ELSE /\ Failed(r) /\ res' = res
    /\ hist' = Append(hist, "starts_with")
    /\ UNCHANGED <<str, bytes, len, sixbit, rebuilt, text, reads, wire>>

EndsWith ==
    /\ pc = "envelope"
    /\ \E suffix \in Patterns, oob \in OobOutcomes :
         \E r \in {ends_with(sixbit, suffix, oob)} :
             /\ arg' = suffix
             /\ IF r.kind = "Ok"
                THEN /\ res' = r.val /\ pc' = "got" /\ err' = err
                ELSE /\ Failed(r) /\ res' = res
    /\ hist' = Append(hist, "ends_with")
    /\ UNCHANGED <<str, bytes, len, sixbit, rebuilt, text, reads, wire>>

Contains ==
    /\ pc = "envelope"
    /\ \E substring \in Patterns, oob \in OobOutcomes :
         \E r \in {contains(sixbit, substring, oob)} :
             /\ arg' = substring
             /\ IF r.kind = "Ok"
                THEN /\ res' = r.val /\ pc' = "got" /\ err' = err
                ELSE /\ Failed(r) /\ res' = res
    /\ hist' = Append(hist, "contains")
    /\ UNCHANGED <<str, bytes, len, sixbit, rebuilt, text, reads, wire>>

\* DecSixbit::default(), whatever the caller holds
Default ==
    /\ pc \in {"text", "slice", "wire"}
    /\ rebuilt' = default
    /\ pc' = "rebuilt"
    /\ hist' = Append(hist, "default")
    /\ UNCHANGED <<str, bytes, len, sixbit, text, reads, err, arg, res, wire>>

\* the codec applied to a caller's text
Init == InitText

Next ==
    \/ Encode
    \/ EncodeUnchecked
    \/ Decode
    \/ DecodeUnchecked

Spec == Init /\ [][Next]_vars

\* the decoder applied to a caller's buffer and claimed length
NextRaw ==
    \/ Decode
    \/ DecodeUnchecked

SpecRaw == InitPair /\ [][NextRaw]_vars

\* the envelope built from a caller's text or byte slice
InitEnvelope == InitText \/ InitSlice

NextEnvelope ==
    \/ New
    \/ TryFromSlice
    \/ Render

SpecEnvelope == InitEnvelope /\ [][NextEnvelope]_vars

\* the codec and the envelope together, applied to what a caller can hold
InitApi == InitText \/ InitSlice \/ InitPair

NextApi ==
    \/ Encode
    \/ EncodeUnchecked
    \/ Decode
    \/ DecodeUnchecked
    \/ New
    \/ TryFromSlice
    \/ Render
    \/ DecodeStored

SpecApi == InitApi /\ [][NextApi]_vars

\* every way to construct an envelope, and its rendering
InitSerde == InitText \/ InitSlice \/ InitWire

NextSerde ==
    \/ New
    \/ TryFromSlice
    \/ Default
    \/ Serialize
    \/ Deserialize
    \/ Render

SpecSerde == InitSerde /\ [][NextSerde]_vars

\* the codec applied to a caller's text or to a caller's buffer and length
InitCodec == InitText \/ InitPair

SpecCodec == InitCodec /\ [][Next]_vars

\* the queries on an envelope built from a caller's text
NextQuery ==
    \/ New
    \/ Compare
    \/ Get

SpecQuery == InitText /\ [][NextQuery]_vars

\* two envelopes, each built from a text or from a slice, compared
NextEq ==
    \/ New
    \/ TryFromSlice
    \/ Eq

SpecEq == InitEnvelope /\ [][NextEq]_vars

\* an envelope built from a text or from a slice, then read through its
\* accessors, queries, Display and Serialize
NextFrame ==
    \/ New
    \/ TryFromSlice
    \/ AsBytes
    \/ Length
    \/ IsEmpty
    \/ Get
    \/ StartsWith
    \/ EndsWith
    \/ Contains
    \/ Render
    \/ Serialize

SpecFrame == InitEnvelope /\ [][NextFrame]_vars

\* the loops of the codec run on a caller's text or on a caller's buffer and
\* length
InitLoops == InitText \/ InitLoopPair

SpecLoops == InitLoops /\ [][Next]_vars

(***************************************************************************)
(* Properties.                                                             *)
(***************************************************************************)
\* bit k (0 = most significant) of the 6-bit value of character i of s,
\* 0 past the end of s
SixbitBit(s, i, k) ==
    IF i < Len(s) THEN ((At(s, i) - 32) \div Pow2(5 - k)) % 2 ELSE 0

\* bit p of the big-endian concatenation of the 6-bit values of s
StreamBit(s, p) == SixbitBit(s, p \div 6, p % 6)

\* byte j of that concatenation, zero-padded
StreamByte(s, j) ==
    128 * StreamBit(s, 8 * j) + 64 * StreamBit(s, 8 * j + 1)
    + 32 * StreamBit(s, 8 * j + 2) + 16 * StreamBit(s, 8 * j + 3)
    + 8 * StreamBit(s, 8 * j + 4) + 4 * StreamBit(s, 8 * j + 5)
    + 2 * StreamBit(s, 8 * j + 6) + StreamBit(s, 8 * j + 7)

\* the 6-bit value of character i of s, 0 past the end of s
SixbitValue(s, i) == IF i < Len(s) THEN At(s, i) - 32 ELSE 0

\* byte j of the chunk layout byte0 = (a<<2)|(b>>4), byte1 = ((b&0xF)<<4)|(c>>2),
\* byte2 = ((c&3)<<6)|d, written with arithmetic on the 6-bit values
LayoutByte(s, j) ==
    LET k == j \div 3
        a == SixbitValue(s, 4 * k)
        b == SixbitValue(s, 4 * k + 1)
        c == SixbitValue(s, 4 * k + 2)
        d == SixbitValue(s, 4 * k + 3)
    IN  CASE j % 3 = 0 -> a * 4 + b \div 16
          [] j % 3 = 1 -> (b % 16) * 16 + c \div 4
          [] OTHER -> (c % 4) * 64 + d

\* C1: for every text whose bytes are all in 32..=95, encode returns Ok and
\* decoding the returned pair returns Ok with the original text.
C1_RoundTrip ==
    valid_text(str) =>
        /\ hist = <<"encode">> => pc = "pair"
        /\ hist = <<"encode", "decode">> => pc = "done" /\ text = str

C1_Witness ==
    /\ hist = <<"encode", "decode">>
    /\ valid_text(str)
    /\ Len(str) = 5
    /\ text = str

\* C2: try_from_slice applied to as_bytes() of DecSixbit::new(s) returns a
\* value equal to DecSixbit::new(s), for every valid text s.
C2_Reversible ==
    hist = <<"new", "try_from_slice">> => pc = "rebuilt" /\ rebuilt = sixbit

\* C3: for every valid text, DecSixbit::new succeeds, its len() is the byte
\* length of the text, and to_string() gives back the text, also when the
\* marker byte was appended.
C3_RenderRoundTrip ==
    valid_text(str) =>
        /\ hist = <<"new">> => pc = "envelope" /\ sixbit.len = Len(str)
        /\ hist = <<"new", "to_string">> => pc = "done" /\ text = str

C3_Witness ==
    /\ hist = <<"new", "to_string">>
    /\ sixbit.len = 4
    /\ Len(sixbit.bytes) = 4
    /\ last(sixbit.bytes) = TRAILING_SPACE_MARKER
    /\ text = str

\* C4: encode returns Err(InvalidCharacter) exactly when the text contains a
\* byte outside 32..=95, wherever it sits, and then returns no packed bytes.
C4_InvalidCharacter ==
    hist = <<"encode">> =>
        /\ (pc = "failed" /\ err = "InvalidCharacter") <=> ~valid_text(str)
        /\ valid_text(str) => pc = "pair"
        /\ pc = "failed" => bytes = <<>> /\ len = 0

C4_Witness ==
    /\ hist = <<"encode">>
    /\ err = "InvalidCharacter"
    /\ Len(str) = 5
    /\ valid_text(SubSeq(str, 1, 4))
    /\ str[5] = 96

\* C5: decode returns Err(InvalidBytesLength) whenever the buffer size
\* differs from ceil(len*6/8) and Ok otherwise, for every buffer and every
\* claimed length.
C5_LengthCheck ==
    hist = <<"decode">> =>
        IF Len(bytes) # CeilDiv(len * 6, 8)
        THEN pc = "failed" /\ err = "InvalidBytesLength"
        ELSE pc = "done"

\* C6: for a valid text of n characters encode returns exactly ceil(n*3/4)
\* bytes and the length n, so the returned pair satisfies
\* bytes.len() == ceil(len*6/8).
C6_SizeLaw ==
    (hist = <<"encode">> /\ valid_text(str)) =>
        /\ pc = "pair"
        /\ Len(bytes) = CeilDiv(Len(str) * 3, 4)
        /\ len = Len(str)
        /\ Len(bytes) = CeilDiv(len * 6, 8)

C6_Witness ==
    /\ hist = <<"encode">>
    /\ valid_text(str)
    /\ Len(str) = 5
    /\ Len(bytes) = 4
    /\ len = 5

\* C7: DecSixbit::new stores the bytes of encode followed by one byte 3
\* exactly when len > 0, len % 4 == 0 and the low 6 bits of the last packed
\* byte are zero (the last character is a space); otherwise it stores
\* exactly the bytes of encode.
C7_MarkerRule ==
    (hist = <<"new">> /\ pc = "envelope") =>
        \A build \in Builds :
            LET e == encode(str, build)
                marked == e.len > 0 /\ e.len % 4 = 0 /\ last(e.bytes) % 64 = 0
            IN  /\ e.kind = "Ok"
                /\ sixbit.len = e.len
                /\ sixbit.bytes = (IF marked THEN e.bytes \o <<3>> ELSE e.bytes)
                /\ marked <=> (Len(str) > 0 /\ Len(str) % 4 = 0 /\ last(str) = 32)

C7_Witness ==
    /\ hist = <<"new">>
    /\ pc = "envelope"
    /\ Len(str) = 4
    /\ last(str) = 32
    /\ Len(sixbit.bytes) = 4
    /\ last(sixbit.bytes) = 3

\* C8: the bytes encode returns are the chunk layout byte0 = (a<<2)|(b>>4),
\* byte1 = ((b&0xF)<<4)|(c>>2), byte2 = ((c&3)<<6)|d with the values missing
\* from a trailing partial chunk taken as 0, that is, the big-endian
\* concatenation of the 6-bit values zero-padded to whole bytes.
C8_BitLayout ==
    (hist = <<"encode">> /\ pc = "pair") =>
        \A j \in 0..(Len(bytes) - 1) :
            /\ At(bytes, j) = LayoutByte(str, j)
            /\ At(bytes, j) = StreamByte(str, j)

C8_Witness ==
    /\ hist = <<"encode">>
    /\ pc = "pair"
    /\ str = <<95, 32, 65, 95, 65>>
    /\ bytes = <<252, 8, 127, 132>>

\* C9: for every text whose bytes are all in 32..=95, encode_unchecked
\* returns exactly the pair that encode returns inside Ok.
C9_EncodeUncheckedAgrees ==
    (hist = <<"encode_unchecked">> /\ valid_text(str)) =>
        /\ pc = "pair"
        /\ \A build \in Builds :
               encode(str, build) = [kind |-> "Ok", bytes |-> bytes, len |-> len]

C9_Witness ==
    /\ hist = <<"encode_unchecked">>
    /\ valid_text(str)
    /\ Len(str) = 5
    /\ pc = "pair"
    /\ len = 5

\* C10: for every (bytes, len) with bytes.len() == ceil(len*6/8),
\* decode_unchecked returns exactly the string decode returns inside Ok.
C10_DecodeUncheckedAgrees ==
    (hist = <<"decode_unchecked">> /\ Len(bytes) = CeilDiv(len * 6, 8)) =>
        /\ pc = "done"
        /\ \A build \in Builds, oob \in OobOutcomes :
               LET d == decode(bytes, len, build, oob)
               IN  d.kind = "Ok" /\ d.text = text

C10_Witness ==
    /\ hist = <<"decode_unchecked">>
    /\ pc = "done"
    /\ len = 5
    /\ Len(bytes) = 4
    /\ Len(text) = 5

\* C11: try_from_slice keeps the given bytes verbatim and infers len from
\* the byte count n = 3k + r: r = 0 gives 4k, r = 2 gives 4k + 2, r = 1 gives
\* 4k when the last byte is the marker 3 and 4k + 1 otherwise.
C11_LengthInference ==
    hist = <<"try_from_slice">> =>
        LET n == Len(bytes)
            k == n \div 3
            r == n % 3
        IN  /\ pc = "rebuilt"
            /\ rebuilt.bytes = bytes
            /\ r = 0 => rebuilt.len = 4 * k
            /\ r = 2 => rebuilt.len = 4 * k + 2
            /\ (r = 1 /\ bytes[n] = 3) => rebuilt.len = 4 * k
            /\ (r = 1 /\ bytes[n] # 3) => rebuilt.len = 4 * k + 1

C11_Witness ==
    /\ hist = <<"try_from_slice">>
    /\ Len(bytes) = 4
    /\ bytes[4] = 3
    /\ rebuilt = DecSixbit(4, bytes)

\* C12: for every valid text s the stored pair of DecSixbit::new(s) is
\* accepted by the checked decoder: decode(new(s).bytes, new(s).len) returns
\* Ok(s).
C12_StoredPairDecodes ==
    (hist = <<"new", "decode">> /\ valid_text(str)) => pc = "done" /\ text = str

\* C12 as amended: decode of the stored pair returns Ok(s) when new(s) stored
\* no marker byte, and Err(InvalidBytesLength) when it stored one (s is not
\* empty, its length is a multiple of 4 and its last character is a space).
C12_StoredPairUnmarked ==
    hist = <<"new", "decode">> =>
        IF Len(str) > 0 /\ Len(str) % 4 = 0 /\ last(str) = 32
        THEN pc = "failed" /\ err = "InvalidBytesLength"
        ELSE pc = "done" /\ text = str

C12_Witness ==
    /\ hist = <<"new", "decode">>
    /\ Len(str) = 4
    /\ last(str) = 65
    /\ Len(sixbit.bytes) = 3
    /\ pc = "done"
    /\ text = str

\* C13: for every valid text s, DecSixbit::new(s) serializes in a
\* human-readable format as the text s and in a binary format as the pair
\* (len, bytes), and deserializing what was serialized yields a value equal
\* to new(s).
C13_SerdeRoundTrip ==
    /\ hist = <<"new", "serialize">> =>
           /\ pc = "wire"
           /\ wire.human => wire.data = Str(str)
           /\ ~wire.human => wire.data = Tuple(sixbit.len, sixbit.bytes)
    /\ hist = <<"new", "serialize", "deserialize">> =>
           pc = "rebuilt" /\ rebuilt = sixbit

C13_Witness ==
    /\ hist = <<"new", "serialize", "deserialize">>
    /\ wire.human
    /\ wire.data = Str(str)
    /\ Len(str) = 4
    /\ last(str) = 32
    /\ Len(sixbit.bytes) = 4
    /\ rebuilt = sixbit

\* C14: for every buffer of the required size ceil(len*6/8), whatever its
\* byte values, decode and decode_unchecked produce exactly len characters,
\* each with a code in 32..=95.
C14_DecodedRange ==
    (/\ hist \in {<<"decode">>, <<"decode_unchecked">>}
     /\ Len(bytes) = CeilDiv(len * 6, 8)) =>
        /\ pc = "done"
        /\ Len(text) = len
        /\ \A i \in 1..Len(text) : text[i] >= 32 /\ text[i] <= 95

C14_Witness ==
    /\ hist = <<"decode">>
    /\ bytes = <<165, 165, 165, 165>>
    /\ len = 5
    /\ pc = "done"
    /\ Len(text) = 5
    /\ text[5] = 73

\* C15: encode("") returns (empty bytes, 0); decode(empty bytes, 0) returns
\* Ok(""); decode(non-empty bytes, 0) returns Err(InvalidBytesLength);
\* decode_unchecked(bytes, 0) returns "" for every buffer without reading it.
C15_LengthZero ==
    /\ (hist = <<"encode">> /\ str = <<>>) =>
           pc = "pair" /\ bytes = <<>> /\ len = 0
    /\ (hist = <<"decode">> /\ len = 0 /\ bytes = <<>>) =>
           pc = "done" /\ text = <<>>
    /\ (hist = <<"decode">> /\ len = 0 /\ bytes # <<>>) =>
           pc = "failed" /\ err = "InvalidBytesLength"
    /\ (hist = <<"decode_unchecked">> /\ len = 0) =>
           pc = "done" /\ text = <<>> /\ reads = {}

C15_Witness ==
    /\ hist = <<"decode">>
    /\ len = 0
    /\ Len(bytes) = 4
    /\ pc = "failed"
    /\ err = "InvalidBytesLength"

\* C16: try_from_slice returns a value for every byte slice (its
\* unreachable!() arm is never executed, so from_slice's unwrap never
\* fails), and the unreachable!() arms of encode, encode_unchecked and
\* decode_core are never executed for any input.
C16_NoUnreachable ==
    /\ err # "Unreachable"
    /\ (hist # <<>> /\ hist[Len(hist)] = "try_from_slice") =>
           pc = "rebuilt" /\ err = "none"

C16_Witness ==
    /\ hist = <<"try_from_slice", "to_string">>
    /\ Len(bytes) = 4
    /\ rebuilt = DecSixbit(5, bytes)
    /\ pc = "done"
    /\ Len(text) = 5

\* C17: for all valid texts s and t, of equal or different lengths,
\* DecSixbit::new(s) < DecSixbit::new(t) if and only if s < t in byte-wise
\* string order.
C17_OrderAgrees ==
    (hist = <<"new", "cmp">> /\ pc = "compared") =>
        (res = "Less" <=> cmp_slice(str, arg) = "Less")

\* C18: for every valid text s and every index i, DecSixbit::new(s).get(i)
\* returns Some(the i-th character of s) when i < s.len() and None when
\* i >= s.len().
C18_GetIndex ==
    hist = <<"new", "get">> =>
        /\ pc = "got"
        /\ arg < Len(str) => res = Some(At(str, arg))
        /\ arg >= Len(str) => res = None

C18_Witness ==
    /\ hist = <<"new", "get">>
    /\ str = <<65, 65, 65, 32, 95>>
    /\ arg = 4
    /\ res = Some(95)

\* C19: every DecSixbit value obtainable through a public construction path
\* (new, try_from_slice, Default, deserialization in either format) satisfies
\* bytes.len() >= ceil(len*3/4), so rendering it with to_string never reads
\* a byte index at or beyond bytes.len().
C19_ConstructedWithinBounds ==
    /\ sixbit # NoValue => Len(sixbit.bytes) >= CeilDiv(sixbit.len * 3, 4)
    /\ rebuilt # NoValue => Len(rebuilt.bytes) >= CeilDiv(rebuilt.len * 3, 4)
    /\ (hist # <<>> /\ hist[Len(hist)] = "to_string") =>
           \A i \in reads :
               i < Len((IF rebuilt # NoValue THEN rebuilt ELSE sixbit).bytes)

\* C20: for every (bytes, len) with bytes.len() >= ceil(len*3/4),
\* decode_core reads only byte indices below ceil(len*3/4), and the bytes
\* beyond that prefix have no influence on the decoded text; consequently
\* checked decode never reads out of bounds, for any argument pair.
C20_ReadsWithinPrefix ==
    /\ (hist = <<"decode_unchecked">> /\ Len(bytes) >= CeilDiv(len * 3, 4)) =>
           /\ pc = "done"
           /\ \A i \in reads : i < CeilDiv(len * 3, 4)
           /\ \A oob \in OobOutcomes :
                  text = decode_core(SubSeq(bytes, 1, CeilDiv(len * 3, 4)), len, oob).text
    /\ hist = <<"decode">> => \A i \in reads : i < Len(bytes)


\* an envelope that carries the marker byte: len is a multiple of 4 and the
\* bytes are the 3 * len / 4 packed bytes followed by the marker
Marked(e) ==
    /\ e.len % 4 = 0
    /\ Len(e.bytes) = (e.len \div 4) * 3 + 1
    /\ last(e.bytes) = TRAILING_SPACE_MARKER

\* the envelope that the last to_string rendered
Rendered == IF rebuilt # NoValue THEN rebuilt ELSE sixbit

\* C21: when an envelope whose len is a multiple of 4 and whose bytes end
\* with the marker is rendered, the slice handed to the decoder is the stored
\* bytes without the marker byte.
C21_SliceExcludesMarker ==
    (/\ Len(hist) >= 2
     /\ hist[Len(hist)] = "to_string"
     /\ Marked(Rendered))
        => arg = SubSeq(Rendered.bytes, 1, Len(Rendered.bytes) - 1)

\* C21 as amended: the slice handed to the decoder is the whole stored
\* buffer, marker included; the decoder reads only the 3 * len / 4 bytes before
\* the marker, and the text is the one decoded from the bytes without the
\* marker.
C21_MarkerPassedUnread ==
    (/\ Len(hist) >= 2
     /\ hist[Len(hist)] = "to_string"
     /\ Marked(Rendered))
        => /\ arg = Rendered.bytes
           /\ \A i \in reads : i < Len(Rendered.bytes) - 1
           /\ pc = "done"
           /\ \E r \in {decode_unchecked(
                            SubSeq(Rendered.bytes, 1, Len(Rendered.bytes) - 1),
                            Rendered.len, -1)} :
                  r.kind = "Ok" /\ r.text = text

C21_Witness ==
    /\ hist = <<"new", "to_string">>
    /\ Len(str) = 4
    /\ last(str) = 32
    /\ str[1] = 65
    /\ Marked(sixbit)
    /\ arg = sixbit.bytes
    /\ reads = {0, 1, 2}
    /\ text = str


\* C22: the marker value 3 never collides with a packed byte: for a valid
\* text whose length is 1 modulo 4 the last byte of encode has its two low
\* bits zero, so it is not 3; hence, when the bytes of DecSixbit::new(s)
\* number 1 modulo 3, they end with byte 3 exactly when new appended the
\* marker.
C22_MarkerUnambiguous ==
    (hist = <<"new">> /\ pc = "envelope") =>
        \E e \in {encode(str, "release")} :
            /\ e.kind = "Ok"
            /\ Len(str) % 4 = 1 =>
                   /\ last(e.bytes) % 4 = 0
                   /\ last(e.bytes) # TRAILING_SPACE_MARKER
                   /\ sixbit.bytes = e.bytes
            /\ Len(sixbit.bytes) % 3 = 1 =>
                   (last(sixbit.bytes) = TRAILING_SPACE_MARKER
                        <=> Len(sixbit.bytes) = Len(e.bytes) + 1)

C22_Witness ==
    /\ hist = <<"new">>
    /\ pc = "envelope"
    /\ str = <<65, 65, 65, 65, 95>>
    /\ Len(sixbit.bytes) = 4
    /\ last(sixbit.bytes) = 252


\* C23: the byte form of the envelope is injective: for valid texts s # t
\* (in particular a text of length 4k+3 and the same text followed by one
\* space) new(s).as_bytes() differs from new(t).as_bytes().
C23_BytesInjective ==
    (/\ hist = <<"new", "eq">>
     /\ arg.from = "new"
     /\ str # arg.input)
        => as_bytes(sixbit) # as_bytes(arg.val)

C23_Witness ==
    /\ hist = <<"new", "eq">>
    /\ arg.from = "new"
    /\ str = <<65, 65, 32>>
    /\ arg.input = <<65, 65, 32, 32>>
    /\ Len(as_bytes(sixbit)) = 3
    /\ as_bytes(arg.val) = as_bytes(sixbit) \o <<3>>

\* C27: for envelopes a and b obtained from new or from try_from_slice,
\* a == b holds exactly when a.to_string() == b.to_string().
C27_EqIsTextEq ==
    (Len(hist) >= 2 /\ hist[Len(hist)] = "eq") =>
        \E ta \in {to_string(Rendered, -1)}, tb \in {to_string(arg.val, -1)} :
            /\ ta.kind = "Ok"
            /\ tb.kind = "Ok"
            /\ res <=> (ta.text = tb.text)


\* bit p of the concatenation of the bytes of b, most significant bit first
BufferBit(b, p) == (At(b, p \div 8) \div Pow2(7 - (p % 8))) % 2

\* the value of bits [6i, 6i+6) of that concatenation
Field(b, i) ==
    32 * BufferBit(b, 6 * i) + 16 * BufferBit(b, 6 * i + 1)
    + 8 * BufferBit(b, 6 * i + 2) + 4 * BufferBit(b, 6 * i + 3)
    + 2 * BufferBit(b, 6 * i + 4) + BufferBit(b, 6 * i + 5)

\* C24: for a buffer of ceil(len*6/8) bytes, character i of decode(bytes,
\* len) is 32 plus the value of bits [6i, 6i+6) of the concatenated bytes,
\* for every i < len; the decoder runs len / 4 full groups and then one step
\* for the len % 4 remaining characters.
C24_BigEndianFields ==
    (hist = <<"decode">> /\ Len(bytes) = CeilDiv(len * 6, 8)) =>
        /\ pc = "done"
        /\ Len(text) = len
        /\ \A i \in 0..(len - 1) : At(text, i) = 32 + Field(bytes, i)
        /\ \E r \in {decode_core(bytes, len, -1)} :
               /\ r.iters = len \div 4
               /\ r.partial = (IF len % 4 > 0 THEN 1 ELSE 0)

C24_Witness ==
    /\ hist = <<"decode">>
    /\ bytes = <<90, 165, 90, 165>>
    /\ len = 5
    /\ pc = "done"
    /\ text = <<54, 74, 53, 58, 73>>

\* the number of unused low bits of the last byte of a buffer that holds n
\* characters
PaddingBits(n) == 2 * (n % 4)

\* the buffer b with those bits cleared
ClearPadding(b, n) ==
    [b EXCEPT ![Len(b)] = (@ \div Pow2(PaddingBits(n))) * Pow2(PaddingBits(n))]

\* C25: for len % 4 in {1, 2, 3} and a buffer of the required size, decode
\* succeeds and returns the text it returns for the buffer with the unused
\* low bits of the last byte cleared; encoding that text gives back the
\* buffer exactly when those bits were zero.
C25_PaddingIgnored ==
    (/\ hist = <<"decode">>
     /\ len % 4 # 0
     /\ Len(bytes) = CeilDiv(len * 6, 8)) =>
        /\ pc = "done"
        /\ \E c \in {decode(ClearPadding(bytes, len), len, "release", -1)} :
               c.kind = "Ok" /\ c.text = text
        /\ \E e \in {encode(text, "release")} :
               /\ e.kind = "Ok"
               /\ e.bytes = ClearPadding(bytes, len)
               /\ e.bytes = bytes <=> last(bytes) % Pow2(PaddingBits(len)) = 0

C25_Witness ==
    /\ hist = <<"decode">>
    /\ bytes = <<165, 90>>
    /\ len = 2
    /\ pc = "done"
    /\ text = <<73, 53>>
    /\ ClearPadding(bytes, len) = <<165, 80>>

\* C26: the size computation (len * 6 + 7) / 8 in usize arithmetic equals
\* ceil(len*6/8) for every len, so decode accepts no pair whose buffer size
\* differs from ceil(len*6/8).
C26_SizeArithmetic ==
    hist = <<"decode">> =>
        /\ \E want \in {expected_bytes(len)} :
               ~want.ovf /\ want.val = CeilDiv(len * 6, 8)
        /\ err # "InvalidBytesLength" => Len(bytes) = CeilDiv(len * 6, 8)


\* a run on an input of n characters makes at most n / 4 full-chunk
\* iterations and at most one partial step, and exactly n / 4 iterations
\* followed by a partial step for the n % 4 remaining characters when it
\* returns a value
BoundedRun(r, n) ==
    /\ r.iters <= n \div 4
    /\ r.partial \in {0, 1}
    /\ r.kind = "Ok" =>
           /\ r.iters = n \div 4
           /\ r.partial = (IF n % 4 > 0 THEN 1 ELSE 0)

\* C28: encode, encode_unchecked and decode_core run exactly len / 4
\* full-chunk iterations followed by at most one partial step and then
\* return, or stop earlier: encode returns a value or an error for every
\* text, encode_unchecked returns a value for every valid text, and
\* decode_core returns a value for every buffer of at least ceil(len*3/4)
\* bytes.
C28_BoundedLoops ==
    /\ hist = <<"encode">> =>
           \A build \in Builds :
               \E r \in {encode_run(str, build)} :
                   BoundedRun(r, Len(str)) /\ r.kind \in {"Ok", "Err"}
    /\ hist = <<"encode_unchecked">> =>
           \A build \in Builds :
               \E r \in {encode_unchecked_run(str, build)} :
                   /\ BoundedRun(r, Len(str))
                   /\ valid_text(str) => r.kind = "Ok"
    /\ (Len(hist) >= 1 /\ hist[Len(hist)] \in {"decode", "decode_unchecked"}) =>
           \A oob \in OobOutcomes :
               \E r \in {decode_core(bytes, len, oob)} :
                   /\ BoundedRun(r, len)
                   /\ (Len(bytes) >= CeilDiv(len * 3, 4) /\ len <= IsizeMax)
                          => r.kind = "Ok"

C28_Witness ==
    /\ hist = <<"decode_unchecked">>
    /\ len = 5
    /\ Len(bytes) = 4
    /\ pc = "done"
    /\ Len(text) = 5
    /\ decode_core(bytes, len, -1).iters = 1
    /\ decode_core(bytes, len, -1).partial = 1


\* the operations of DecSixbit that take &self
ReadOnlyOps ==
    {"as_bytes", "len", "is_empty", "get", "starts_with", "ends_with",
     "contains", "to_string", "serialize"}

\* C29: as_bytes, len, is_empty, get, starts_with, ends_with, contains,
\* to_string and serialize leave len and bytes of the envelope they are called
\* on unchanged, and try_from_slice leaves the caller's slice unchanged.
C29_Frame ==
    [][/\ (Len(hist') = Len(hist) + 1 /\ hist'[Len(hist')] \in ReadOnlyOps)
           => sixbit' = sixbit /\ rebuilt' = rebuilt
       /\ (Len(hist') = Len(hist) + 1 /\ hist'[Len(hist')] = "try_from_slice")
           => bytes' = bytes /\ sixbit' = sixbit]_vars

C29_Witness ==
    /\ hist = <<"new", "to_string">>
    /\ str = <<65, 32, 32, 32>>
    /\ text = str
    /\ sixbit = DecSixbit(4, <<132, 0, 0, 3>>)

====
